---- MODULE Spec2Model ----
(***************************************************************************)
(* TrajecSim post-processing: the wind-profile generator, the Noshiro      *)
(* safety-zone evaluator, the per-run feature extractor, the ensemble      *)
(* landing-range table, the grouped KML footprints and the KML merge.      *)
(*                                                                         *)
(* Numbers are fixed point.  Altitudes of the wind table are centimetres   *)
(* (the code's metres times 100, on a coarser grid); wind speeds are exact rationals          *)
(* [num, den]; angles are whole degrees.                                   *)
(***************************************************************************)
EXTENDS Integers, Sequences, FiniteSets, TLC

VARIABLES
    wind_args,      \* arguments of the last generate_wind_table call, or NoCall
    wind_table,     \* the list that call returned
    lr_polygon,     \* self.polygon of the constructed LandingRange, (lon, lat) ring
    lr_args,        \* arguments of the last landing_range call, or NoCall
    lr_result,      \* the signed distance that call returned
    raw_output,     \* the run: its raw_output_file (a CSV) and launch parameters
    extrema,        \* the last get_extrema_analysis call on the run, or NoCall
    summary,        \* the last summarize_output_info_df call on the run, or NoCall
    simulation_df,  \* the ensemble: one row of conditions and landed point per run
    range_table,    \* the last generate_landing_range_table call, or NoCall
    grouped_df,     \* the runs' landed points grouped by a condition key
    kml,            \* the features of self.kml of the KMLGenerator
    kml_call,       \* the last generate_grouped_points_polygons call, or NoCall
    polygon_call,   \* the last generate_groundpoint_polygon call, or NoCall
    existing_content,   \* the text of the file at existing_kml_path
    kmz_content,        \* the text of doc.kml inside the file at kmz_path
    merge_output        \* the last merge_kmz_to_kml call and the file it wrote

windVars == <<wind_args, wind_table>>
rangeVars == <<lr_polygon, lr_args, lr_result>>
runVars == <<raw_output, extrema, summary>>
tableVars == <<simulation_df, range_table>>
kmlVars == <<grouped_df, kml, kml_call, polygon_call>>
mergeVars == <<existing_content, kmz_content, merge_output>>
vars == <<windVars, rangeVars, runVars, tableVars, kmlVars, mergeVars>>

NoCall == [called |-> FALSE]

----------------------------------------------------------------------------
(* Helpers: exact rationals and Python's list/set/sorted.                  *)

Abs(x) == IF x < 0 THEN -x ELSE x

RECURSIVE GCD(_, _)
GCD(a, b) == IF b = 0 THEN Abs(a) ELSE GCD(b, a % b)

\* n/d in lowest terms with a positive denominator; d = 0 stands for inf.
Rat(n, d) ==
    IF d = 0 THEN [num |-> 1, den |-> 0]
    ELSE LET g == GCD(Abs(n), Abs(d))
             s == IF d < 0 THEN -1 ELSE 1
         IN  [num |-> s * (n \div g), den |-> s * (d \div g)]

RatMul(a, b) == Rat(a.num * b.num, a.den * b.den)

RatOfInt(n) == [num |-> n, den |-> 1]

\* float ** for an integral exponent
RECURSIVE RatPow(_, _)
RatPow(r, a) ==
    IF a = 0 THEN RatOfInt(1)
    ELSE IF a > 0 THEN RatMul(r, RatPow(r, a - 1))
    ELSE RatPow(Rat(r.den, r.num), -a)

\* list(set(xs)): one copy of every element, in the set's own order
RECURSIVE SetToList(_)
SetToList(S) ==
    IF S = {} THEN <<>>
    ELSE LET x == CHOOSE y \in S : TRUE
         IN  Append(SetToList(S \ {x}), x)

list_set(xs) == SetToList({xs[i] : i \in DOMAIN xs})

\* sorted(xs) for a list of numbers: ascending and stable, nothing dropped
RECURSIVE sorted(_)
sorted(xs) ==
    IF xs = <<>> THEN <<>>
    ELSE LET m == CHOOSE i \in DOMAIN xs :
                      /\ \A j \in DOMAIN xs : xs[i] <= xs[j]
                      /\ \A j \in 1..(i - 1) : xs[j] # xs[i]
         IN  <<xs[m]>> \o sorted(SubSeq(xs, 1, m - 1) \o SubSeq(xs, m + 1, Len(xs)))

----------------------------------------------------------------------------
(* wind_table.py: generate_wind_table                                      *)

\* The sampling steps of the model (the code's are 10 cm and 10000 cm): the
\* ranges, their end points and the two altitudes they share are the code's.
LowStep == 110
HighStep == 100000

\* np.arange(start, stop, step), step > 0: start + i*step while below stop
np_arange(start, stop, step) ==
    [i \in 1..((stop - start + step - 1) \div step) |-> start + (i - 1) * step]

\* np.arange(0.1, 10.1, 0.1): 0.1 m up to 10 m, here in steps of LowStep cm
low_altitudes == np_arange(10, 1010, LowStep)

\* np.logspace(1, 3, 300): 10 m up to 1000 m, here the 3 points 10^1, 10^2, 10^3
medium_altitudes == <<1000, 10000, 100000>>

\* np.arange(1000, 10001, 100): 1000 m up to 10000 m, here in steps of HighStep cm
high_altitudes == np_arange(100000, 1000100, HighStep)

\* the three extend() calls
altitudes_extended == low_altitudes \o medium_altitudes \o high_altitudes

\* the same without set(): every copy kept
altitudes_m_list_NoSet == sorted(altitudes_extended)

\* sorted(list(set(altitudes_m_list)))
altitudes_m_list == sorted(list_set(altitudes_extended))

\* the same with the docstring's fixed H_REF of 10 m as the divisor
relative_heights_s_FixedRef(ref_altitude) ==
    [i \in DOMAIN altitudes_m_list |-> Rat(altitudes_m_list[i], 1000)]

\* altitudes_s / ref_altitude
relative_heights_s(ref_altitude) ==
    [i \in DOMAIN altitudes_m_list |-> Rat(altitudes_m_list[i], ref_altitude)]

\* relative_heights_s.pow(wind_power_factor), then the h = 0 override
power_terms_s(ref_altitude, wind_power_factor) ==
    LET rel == relative_heights_s(ref_altitude)
        raw == [i \in DOMAIN rel |-> RatPow(rel[i], wind_power_factor)]
    IN  IF Len(altitudes_m_list) > 0 /\ altitudes_m_list[1] = 0
        THEN [raw EXCEPT ![1] = IF wind_power_factor > 0
                                THEN RatOfInt(0) ELSE RatOfInt(1)]
        ELSE raw

\* ground_wind_speed * power_terms_s
wind_speeds_s(ground_wind_speed, ref_altitude, wind_power_factor) ==
    LET pw == power_terms_s(ref_altitude, wind_power_factor)
    IN  [i \in DOMAIN pw |-> RatMul(RatOfInt(ground_wind_speed), pw[i])]

\* the one direction value repeated for every altitude
wind_direction(ground_wind_dir) ==
    IF ground_wind_dir > 180 THEN ground_wind_dir - 180 ELSE ground_wind_dir + 180

generate_wind_table(ground_wind_dir, ground_wind_speed, ref_altitude, wind_power_factor) ==
    LET sp == wind_speeds_s(ground_wind_speed, ref_altitude, wind_power_factor)
    IN  [i \in DOMAIN altitudes_m_list |->
            [altitude  |-> altitudes_m_list[i],
             speed     |-> sp[i],
             direction |-> wind_direction(ground_wind_dir)]]

\* the arguments the calls are made with
GroundWindDirs == {0, 30, 90, 179, 180, 181, 270, 359}
GroundWindSpeeds == {-5, 0, 5, 10}
RefAltitudes == {500, 560, 1000, 100000}
WindPowerFactors == {-1, 0, 1}

CallGenerateWindTable ==
    /\ wind_args = NoCall
    /\ \E d \in GroundWindDirs, v \in GroundWindSpeeds,
          h \in RefAltitudes, a \in WindPowerFactors :
        /\ wind_args' = [called |-> TRUE, ground_wind_dir |-> d,
                         ground_wind_speed |-> v, ref_altitude |-> h,
                         wind_power_factor |-> a]
        /\ wind_table' = generate_wind_table(d, v, h, a)
        /\ UNCHANGED <<rangeVars, runVars, tableVars, kmlVars, mergeVars>>

InitWind ==
    /\ wind_args = NoCall
    /\ wind_table = <<>>

----------------------------------------------------------------------------
(* noshiro_sea.py: NoshiroSea.landing_range                                *)
(*                                                                         *)
(* Coordinates are grid steps; a point is [x, y, d] for (x/d, y/d), x the  *)
(* longitude and y the latitude as in Shapely.                             *)

\* POLYGON_COORDINATES, (lat, lon), on a grid of 0.005 degrees with origin
\* (40.225, 139.960); repeated grid points dropped
POLYGON_COORDINATES ==
    << <<7, 10>>, <<8, 7>>, <<8, 6>>, <<8, 5>>, <<8, 4>>, <<8, 3>>, <<7, 3>>,
       <<7, 2>>, <<6, 1>>, <<5, 1>>, <<4, 1>>, <<3, 1>>, <<2, 2>>, <<1, 3>>,
       <<1, 4>>, <<1, 5>>, <<0, 8>> >>

\* the square of the scenario, corners (0,0),(0,1),(1,1),(1,0), in steps of 0.5
SQUARE_COORDINATES == << <<0, 0>>, <<0, 2>>, <<2, 2>>, <<2, 0>> >>

Pt(x, y) == [x |-> x, y |-> y, d |-> 1]

\* Polygon([(lon, lat) for lat, lon in coordinates])
Polygon(coordinates) ==
    [i \in DOMAIN coordinates |-> Pt(coordinates[i][2], coordinates[i][1])]

\* the edges of the closed ring, as pairs of indices
Edges(ring) == {<<i, (i % Len(ring)) + 1>> : i \in DOMAIN ring}

RatLess(a, b) == a.num * b.den < b.num * a.den

\* square of the planar distance between an integer point p and a point q
planar2(p, q) ==
    Rat((p.x * q.d - q.x) * (p.x * q.d - q.x) + (p.y * q.d - q.y) * (p.y * q.d - q.y),
        q.d * q.d)

NormPt(x, y, d) ==
    LET g == GCD(GCD(Abs(x), Abs(y)), d)
    IN  [x |-> x \div g, y |-> y \div g, d |-> d \div g]

\* the point of segment a-b closest to p (projection, clamped to the ends)
closest_on_segment(p, a, b) ==
    LET dx == b.x - a.x
        dy == b.y - a.y
        D  == dx * dx + dy * dy
        t  == (p.x - a.x) * dx + (p.y - a.y) * dy
    IN  IF D = 0 \/ t <= 0 THEN a
        ELSE IF t >= D THEN b
        ELSE NormPt(a.x * D + t * dx, a.y * D + t * dy, D)

\* p lies on the ring
on_boundary(ring, p) ==
    \E e \in Edges(ring) :
        LET a == ring[e[1]]
            b == ring[e[2]]
        IN  /\ (b.x - a.x) * (p.y - a.y) = (b.y - a.y) * (p.x - a.x)
            /\ (p.x - a.x) * (p.x - b.x) <= 0
            /\ (p.y - a.y) * (p.y - b.y) <= 0

\* Polygon.contains(point): p is in the interior (even-odd rule, ray to +x)
contains(ring, p) ==
    /\ ~on_boundary(ring, p)
    /\ Cardinality({e \in Edges(ring) :
           LET a == ring[e[1]]
               b == ring[e[2]]
           IN  /\ (a.y > p.y) # (b.y > p.y)
               /\ IF b.y > a.y
                  THEN (p.x - a.x) * (b.y - a.y) < (p.y - a.y) * (b.x - a.x)
                  ELSE (p.x - a.x) * (b.y - a.y) > (p.y - a.y) * (b.x - a.x)})
         % 2 = 1

\* nearest_points(boundary, point)[0]: the boundary points at least distance;
\* which of several equally near points is returned is Shapely's choice
nearest_on_boundary(ring, p) ==
    LET cands == {closest_on_segment(p, ring[e[1]], ring[e[2]]) : e \in Edges(ring)}
        dists == {planar2(p, q) : q \in cands}
        least == CHOOSE d \in dists : \A e \in dists : ~RatLess(e, d)
    IN  {q \in cands : planar2(p, q) = least}

\* nearest_points(polygon, point)[0]: the point itself when the area covers it
nearest_on_polygon(ring, p) ==
    IF contains(ring, p) \/ on_boundary(ring, p) THEN {p}
    ELSE nearest_on_boundary(ring, p)

\* geodesic(...).meters, squared, in grid steps: near 40 N a step of longitude
\* is 3/4 of a step of latitude
KLat == 4
KLon == 3

geodesic2(p, q) ==
    Rat(KLon * KLon * (p.x * q.d - q.x) * (p.x * q.d - q.x)
        + KLat * KLat * (p.y * q.d - q.y) * (p.y * q.d - q.y), q.d * q.d)

\* the same with the polygon as the target on both branches
target_nearest_AlwaysPolygon(ring, is_inside, point) ==
    nearest_on_polygon(ring, point)

\* the target geometry of landing_range
target_nearest(ring, is_inside, point) ==
    IF is_inside THEN nearest_on_boundary(ring, point)
    ELSE nearest_on_polygon(ring, point)

\* landing_range(latitude, longitude): the values it can return, each as the
\* sign of the float and the square of its magnitude
landing_range(ring, latitude, longitude) ==
    LET point == Pt(longitude, latitude)
        is_inside == contains(ring, point)
    IN  {LET distance2 == geodesic2(point, n)
             positive == distance2.num > 0
         IN  [sign |-> IF ~positive THEN 0 ELSE IF is_inside THEN 1 ELSE -1,
              dist2 |-> distance2] :
         n \in target_nearest(ring, is_inside, point)}

Latitudes == -1..9
Longitudes == -1..11

ConstructNoshiroSea ==
    /\ lr_polygon' = Polygon(POLYGON_COORDINATES)
    /\ lr_args' = NoCall
    /\ lr_result' = NoCall
    /\ UNCHANGED <<windVars, runVars, tableVars, kmlVars, mergeVars>>

ConstructSquare ==
    /\ lr_polygon' = Polygon(SQUARE_COORDINATES)
    /\ lr_args' = NoCall
    /\ lr_result' = NoCall
    /\ UNCHANGED <<windVars, runVars, tableVars, kmlVars, mergeVars>>

CallLandingRange ==
    /\ lr_polygon # <<>>
    /\ \E lat \in Latitudes, lon \in Longitudes :
        /\ lr_args' = [called |-> TRUE, latitude |-> lat, longitude |-> lon]
        /\ \E r \in landing_range(lr_polygon, lat, lon) :
               lr_result' = [called |-> TRUE, sign |-> r.sign, dist2 |-> r.dist2]
        /\ UNCHANGED <<lr_polygon, windVars, runVars, tableVars, kmlVars, mergeVars>>

InitRange ==
    /\ lr_polygon = <<>>
    /\ lr_args = NoCall
    /\ lr_result = NoCall

----------------------------------------------------------------------------
(* summarize.py: get_extrema_analysis and summarize_output_info_df          *)
(*                                                                         *)
(* A DataFrame read from the CSV is a sequence of records; its index       *)
(* labels are 0 .. n-1, the label of df[i] being i - 1.                    *)

\* trajecsim.landing_range.launch_sites.LAUNCH_SITES: site key -> class
LAUNCH_SITES == [noshiro_sea |-> "NoshiroSea"]

\* LAUNCH_SITES.get(landing_range_script)
LAUNCH_SITES_get(landing_range_script) ==
    IF landing_range_script \in DOMAIN LAUNCH_SITES
    THEN LAUNCH_SITES[landing_range_script] ELSE "None"

Labels(df) == 0..(Len(df) - 1)

Loc(df, label) == df[label + 1]

\* Series.idxmin() / idxmax() over the rows `labels` of column col: the first
\* label holding the least / greatest value
idxmin(df, labels, col) ==
    CHOOSE l \in labels :
        /\ \A k \in labels : Loc(df, l)[col] <= Loc(df, k)[col]
        /\ \A k \in labels : k < l => Loc(df, k)[col] # Loc(df, l)[col]

\* the same with the last label holding the greatest value
idxmax_Last(df, labels, col) ==
    CHOOSE l \in labels :
        /\ \A k \in labels : Loc(df, l)[col] >= Loc(df, k)[col]
        /\ \A k \in labels : k > l => Loc(df, k)[col] # Loc(df, l)[col]

idxmax(df, labels, col) ==
    CHOOSE l \in labels :
        /\ \A k \in labels : Loc(df, l)[col] >= Loc(df, k)[col]
        /\ \A k \in labels : k < l => Loc(df, k)[col] # Loc(df, l)[col]

\* math.sin(pitch * math.pi / 180) for the pitches of the model
math_sin_deg(pitch) == CASE pitch = 0 -> 0 [] pitch = 90 -> 1

\* elevation + launcher_length * sin(pitch)
launch_clear_height(launch) ==
    launch.elevation + launch.launcher_length * math_sin_deg(launch.pitch)

\* np.degrees(x) = x * 180 / pi, pi taken as 355/113
PiNum == 355
PiDen == 113

np_degrees(x) == Rat(x * 180 * PiDen, PiNum)

\* df["dynamic_pressure"] * np.degrees(df["angle_of_attack_gust"])
qbar_atan_aoa(row) ==
    RatMul(RatOfInt(row.dynamic_pressure), np_degrees(row.angle_of_attack_gust))

\* idxmax of the qbar_atan_aoa column
idxmax_qbar_atan_aoa(df) ==
    CHOOSE l \in Labels(df) :
        /\ \A k \in Labels(df) :
               ~RatLess(qbar_atan_aoa(Loc(df, l)), qbar_atan_aoa(Loc(df, k)))
        /\ \A k \in Labels(df) :
               k < l => qbar_atan_aoa(Loc(df, k)) # qbar_atan_aoa(Loc(df, l))

\* calculate_temperature(altitude) = 15.0 - 6.5 * (altitude / 1000.0), in 1/2000 C
calculate_temperature(altitude) == 30000 - 13 * altitude

\* the same with >=
above_launch_clear_Geq(df, launch) ==
    {l \in Labels(df) : Loc(df, l).altitude >= launch_clear_height(launch)}

\* the df rows with altitude above the launch-clear height
above_launch_clear(df, launch) ==
    {l \in Labels(df) : Loc(df, l).altitude > launch_clear_height(launch)}

\* extrema_points, in insertion order: name, index, value
extrema_points(df, launch) ==
    LET all == Labels(df)
        pt(name, idx, value) == [extrema_type |-> name, index |-> idx, value |-> value]
        initial_point_idx == idxmin(df, all, "time")
        launch_clear_idx == idxmin(df, above_launch_clear(df, launch), "time")
        max_speed_idx == idxmax(df, all, "true_velocity")
        max_qbar_idx == idxmax(df, all, "dynamic_pressure")
        max_accel_idx == idxmax(df, all, "acceleration")
        max_qbar_atan_idx == idxmax_qbar_atan_aoa(df)
        max_altitude_idx == idxmax(df, all, "altitude")
        final_point_idx == idxmax(df, all, "time")
        parachute_deploy_idx == idxmax(df, all, "parachute_deploy_gain")
        max_thrust_idx == idxmax(df, all, "thrust")
    IN  << pt("initial_point", initial_point_idx, Loc(df, initial_point_idx).altitude),
           pt("launch_clear", launch_clear_idx, Loc(df, launch_clear_idx).altitude),
           pt("max_speed", max_speed_idx, Loc(df, max_speed_idx).true_velocity),
           pt("max_dynamic_pressure", max_qbar_idx, Loc(df, max_qbar_idx).dynamic_pressure),
           pt("max_acceleration", max_accel_idx, Loc(df, max_accel_idx).acceleration),
           pt("max_qbar_atan_aoa", max_qbar_atan_idx,
              qbar_atan_aoa(Loc(df, max_qbar_atan_idx))),
           pt("max_altitude", max_altitude_idx, Loc(df, max_altitude_idx).altitude),
           pt("final_point", final_point_idx, Loc(df, final_point_idx).altitude),
           pt("parachute_deploy", parachute_deploy_idx,
              Loc(df, parachute_deploy_idx).parachute_deploy_gain),
           pt("max_thrust", max_thrust_idx, Loc(df, max_thrust_idx).thrust) >>

\* the (lat, lon) the records of a run can have
RunPositions == {<<4, 5>>}

\* landing_range_obj.landing_range at those positions
run_landing_ranges ==
    {<<pos, CHOOSE d \in landing_range(Polygon(POLYGON_COORDINATES),
                             pos[1], pos[2]) : TRUE>> :
        pos \in RunPositions}

\* landing_range_obj.landing_range at the position of every record
landing_ranges(df) ==
    {pr \in run_landing_ranges :
        pr[1] \in {<<df[i].latitude, df[i].longitude>> : i \in DOMAIN df}}

\* one row of the result: the record at the extremum's index (kept as
\* `index`), its value, and the landing range at its position
extrema_row(df, point, ranges) ==
    LET r == Loc(df, point.index)
    IN  [extrema_type |-> point.extrema_type,
         index |-> point.index,
         extrema_value |-> point.value,
         time |-> r.time,
         thrust |-> r.thrust,
         acceleration |-> r.acceleration,
         dynamic_pressure |-> r.dynamic_pressure,
         angle_of_attack_gust |-> r.angle_of_attack_gust,
         angle_of_attack_total |-> r.angle_of_attack_total,
         true_velocity |-> r.true_velocity,
         altitude |-> r.altitude,
         temperature |-> calculate_temperature(r.altitude),
         latitude |-> r.latitude,
         longitude |-> r.longitude,
         landing_range |->
             (CHOOSE pr \in ranges : pr[1] = <<r.latitude, r.longitude>>)[2]]

Raise(error) == [kind |-> "error", error |-> error]

\* pd.DataFrame({"landing_range": [0]})
DegenerateTable ==
    [kind |-> "table", columns |-> {"landing_range"},
     rows |-> <<[landing_range |-> 0]>>]

ExtremaColumns ==
    {"extrema_type", "extrema_value", "time", "thrust", "acceleration",
     "dynamic_pressure", "angle_of_attack_gust", "angle_of_attack_total",
     "true_velocity", "altitude", "temperature", "latitude", "longitude",
     "landing_range"}

\* the same with a KeyError for a key that is not registered
no_site_result_Raise == Raise("KeyError")

\* what get_extrema_analysis does when LAUNCH_SITES.get returns None
no_site_result == DegenerateTable

get_extrema_analysis(df, launch, landing_range_script) ==
    IF LAUNCH_SITES_get(landing_range_script) = "None" THEN no_site_result
    ELSE IF Len(df) = 0 THEN Raise("ValueError")
    ELSE IF above_launch_clear(df, launch) = {} THEN Raise("ValueError")
    ELSE LET points == extrema_points(df, launch)
             ranges == landing_ranges(df)
         IN  [kind |-> "table", columns |-> ExtremaColumns,
              rows |-> [i \in DOMAIN points |-> extrema_row(df, points[i], ranges)]]

\* KMLGenerator.add_line: a line string feature
add_line(points, name, rgb) ==
    [kind |-> "linestring", name |-> name, coords |-> points, rgb |-> rgb,
     width |-> 3,
     altitudemode |-> IF Len(points[1]) = 3 THEN "relativetoground"
                      ELSE "clamptoground"]

\* the same with .iloc[-1]
iloc0_Last(labels) == CHOOSE l \in labels : \A k \in labels : k <= l

\* .iloc[0] of the rows `labels`: the row that comes first
iloc0(labels) == CHOOSE l \in labels : \A k \in labels : l <= k

\* summarize_output_info_df: the summary row and the saved flight-path KML
summarize_output_info_df(df, launch) ==
    LET above == above_launch_clear(df, launch)
    IN  IF above = {} THEN Raise("IndexError")
        ELSE LET first == iloc0(above)
                 coordinates_3d == [i \in DOMAIN df |->
                     <<df[i].longitude, df[i].latitude, df[i].altitude>>]
                 coordinates_2d == [i \in DOMAIN df |->
                     <<df[i].longitude, df[i].latitude>>]
             IN  [kind |-> "row",
                  max_altitude |-> Loc(df, idxmax(df, Labels(df), "altitude")).altitude,
                  max_speed |->
                      Loc(df, idxmax(df, Labels(df), "true_velocity")).true_velocity,
                  landed_latitude |-> df[Len(df)].latitude,
                  landed_longitude |-> df[Len(df)].longitude,
                  max_pressure |->
                      Loc(df, idxmax(df, Labels(df), "dynamic_pressure")).dynamic_pressure,
                  launch_clear_speed |-> Loc(df, first).true_velocity,
                  kml |-> << add_line(coordinates_3d, "flight_path", <<255, 0, 0>>),
                             add_line(coordinates_2d, "flight_path", <<0, 255, 0>>) >>]

\* Bound of the model: the number of records of a trajectory
MaxLen == 2

Times == 0..1
Altitudes == {0, 2}
Velocities == {1, 2}
Pressures == {1, 2}
AoAPairs == {<<1, 2>>, <<2, 1>>}

TimestepRecord(t, alt, v, q, gust, total) ==
    [time |-> t, altitude |-> alt, true_velocity |-> v, dynamic_pressure |-> q,
     angle_of_attack_gust |-> gust, angle_of_attack_total |-> total,
     acceleration |-> 1, thrust |-> 1, parachute_deploy_gain |-> 0,
     latitude |-> 4, longitude |-> 5]

\* (acceleration, thrust, parachute_deploy_gain) of a record under thrust and
\* of a record under the parachute
Propulsions == {<<2, 1, 0>>, <<1, 2, 1>>}

\* records that differ in time, altitude and speed, records in flight that
\* differ in the aerodynamic columns, and records in flight that differ in
\* acceleration, thrust and parachute gain
Records ==
    {TimestepRecord(t, alt, v, 1, 1, 1) :
        t \in Times, alt \in Altitudes, v \in Velocities}
    \cup {TimestepRecord(t, 2, 1, q, a[1], a[2]) :
        t \in Times, q \in Pressures, a \in AoAPairs}
    \cup {[TimestepRecord(t, 2, 1, 1, 1, 1) EXCEPT
              !.acceleration = p[1], !.thrust = p[2],
              !.parachute_deploy_gain = p[3]] :
        t \in Times, p \in Propulsions}

Trajectories == UNION {[1..n -> Records] : n \in 0..MaxLen}

Launches ==
    [elevation : {0, 1}, launcher_length : {1}, pitch : {0, 90}]

SiteKeys == {"noshiro_sea", "unknown_site"}

NoRun == [written |-> FALSE]

\* the simulator writes the run's raw_output_file
RunSimulation ==
    /\ raw_output = NoRun
    /\ \E df \in Trajectories, launch \in Launches :
        /\ raw_output' = [written |-> TRUE, df |-> df, launch |-> launch]
        /\ UNCHANGED <<extrema, summary, windVars, rangeVars, tableVars, kmlVars, mergeVars>>

CallGetExtremaAnalysis ==
    /\ raw_output.written
    /\ \E script \in SiteKeys :
        /\ extrema' = [called |-> TRUE, landing_range_script |-> script,
                       result |-> get_extrema_analysis(raw_output.df,
                                      raw_output.launch, script)]
        /\ UNCHANGED <<raw_output, summary, windVars, rangeVars, tableVars, kmlVars, mergeVars>>

CallSummarizeOutputInfoDf ==
    /\ raw_output.written
    /\ summary' = [called |-> TRUE,
                   result |-> summarize_output_info_df(raw_output.df,
                                  raw_output.launch)]
    /\ UNCHANGED <<raw_output, extrema, windVars, rangeVars, tableVars, kmlVars, mergeVars>>

InitRun ==
    /\ raw_output = NoRun
    /\ extrema = NoCall
    /\ summary = NoCall

----------------------------------------------------------------------------
(* summarize.py: generate_landing_range_table                              *)

\* pd.DataFrame() and pd.DataFrame([]): no columns and no rows
EmptyDataFrame == [kind |-> "table", columns |-> {}, rows |-> <<>>]

\* the condition columns of simulation_df are tuples (section, name); a plain
\* string label is written with an empty section
ConditionColumn(section, name) == <<section, name>>
PlainColumn(name) == <<"", name>>

\* [col for col in columns if isinstance(col, tuple) and name in col[1]]
condition_cols(columns, name) ==
    {col \in columns : col[1] # "" /\ col[2] = name}

\* geodesic(...).meters of a squared distance that is a perfect square
geodesic_meters(dist2) == CHOOSE k \in 0..dist2.num : k * k = dist2.num

\* landing_range_obj.landing_range(lat, lon) as the float the table averages
landing_range_float(ring, latitude, longitude) ==
    LET r == CHOOSE x \in landing_range(ring, latitude, longitude) : TRUE
    IN  r.sign * geodesic_meters(r.dist2)

\* the list of dicts the loop over simulation_df.iterrows() builds
table_data(rows, ring) ==
    [i \in DOMAIN rows |->
        [wind_speed |-> rows[i].ground_wind_speed,
         wind_dir |-> rows[i].ground_wind_dir,
         landing_range |-> landing_range_float(ring, rows[i].landed_latitude,
                                               rows[i].landed_longitude)]]

\* pd.DataFrame(list of dicts): the columns are the keys of the dicts, so an
\* empty list gives a frame without any column
DataFrame(data) ==
    IF data = <<>> THEN EmptyDataFrame
    ELSE [kind |-> "table",
          columns |-> {"wind_speed", "wind_dir", "landing_range"},
          rows |-> data]

RECURSIVE SumOver(_, _)
SumOver(S, f) ==
    IF S = {} THEN 0
    ELSE LET x == CHOOSE y \in S : TRUE
         IN  f[x] + SumOver(S \ {x}, f)

NaN == [num |-> 0, den |-> 0]

\* table_df.pivot_table(index="wind_speed", columns="wind_dir",
\*                      values="landing_range", aggfunc="mean")
pivot_table(table_df) ==
    IF "landing_range" \notin table_df.columns THEN Raise("KeyError")
    ELSE LET rows == table_df.rows
             index == {rows[i].wind_speed : i \in DOMAIN rows}
             columns == {rows[i].wind_dir : i \in DOMAIN rows}
             cell(s, d) ==
                 LET sel == {i \in DOMAIN rows :
                                rows[i].wind_speed = s /\ rows[i].wind_dir = d}
                 IN  IF sel = {} THEN NaN
                     ELSE Rat(SumOver(sel, [i \in DOMAIN rows |-> rows[i].landing_range]),
                              Cardinality(sel))
         IN  [kind |-> "table", index |-> index, columns |-> columns,
              values |-> [c \in index \X columns |-> cell(c[1], c[2])]]

generate_landing_range_table(df, landing_range_script) ==
    IF LAUNCH_SITES_get(landing_range_script) = "None" THEN EmptyDataFrame
    ELSE IF \/ condition_cols(df.columns, "ground_wind_speed") = {}
            \/ condition_cols(df.columns, "ground_wind_dir") = {}
         THEN EmptyDataFrame
    ELSE IF /\ df.rows # <<>>
            /\ \/ PlainColumn("landed_latitude") \notin df.columns
               \/ PlainColumn("landed_longitude") \notin df.columns
         THEN Raise("KeyError")
    ELSE pivot_table(DataFrame(table_data(df.rows, Polygon(POLYGON_COORDINATES))))

\* Bound of the model: the number of runs of an ensemble
MaxRuns == 2

EnsembleWindSpeeds == {3, 5}
EnsembleWindDirs == {0, 90}

\* landed (lat, lon): 12 inside, 4 inside and 4 outside the Noshiro zone
LandedPoints == {<<4, 5>>, <<2, 4>>, <<0, 3>>}

RunRows ==
    {[ground_wind_speed |-> s, ground_wind_dir |-> d,
      landed_latitude |-> p[1], landed_longitude |-> p[2]] :
        s \in EnsembleWindSpeeds, d \in EnsembleWindDirs, p \in LandedPoints}

AllColumns ==
    {ConditionColumn("wind", "ground_wind_speed"),
     ConditionColumn("wind", "ground_wind_dir"),
     PlainColumn("landed_latitude"), PlainColumn("landed_longitude")}

ColumnSets ==
    {AllColumns,
     AllColumns \ {ConditionColumn("wind", "ground_wind_speed")},
     AllColumns \ {ConditionColumn("wind", "ground_wind_dir")},
     AllColumns \ {PlainColumn("landed_latitude")}}

Ensembles ==
    UNION {[columns : ColumnSets, rows : [1..n -> RunRows]] : n \in 0..MaxRuns}

\* the runner collects the runs of the ensemble into simulation_df
BuildEnsemble ==
    /\ simulation_df = NoRun
    /\ \E df \in Ensembles :
        /\ simulation_df' = [written |-> TRUE, df |-> df]
        /\ UNCHANGED <<range_table, windVars, rangeVars, runVars, kmlVars, mergeVars>>

CallGenerateLandingRangeTable ==
    /\ simulation_df.written
    /\ \E script \in SiteKeys :
        /\ range_table' = [called |-> TRUE, landing_range_script |-> script,
                           result |-> generate_landing_range_table(
                                          simulation_df.df, script)]
        /\ UNCHANGED <<simulation_df, windVars, rangeVars, runVars, kmlVars, mergeVars>>

InitTable ==
    /\ simulation_df = NoRun
    /\ range_table = NoCall

----------------------------------------------------------------------------
(* kml_generator.py: KMLGenerator                                          *)

\* np.linspace(0, 1, n) and the interpolation truncated by int()
create_color_gradient(start_color, end_color, n) ==
    [i \in 1..n |->
        [c \in 1..3 |->
            IF n = 1 THEN start_color[c]
            ELSE ((n - i) * start_color[c] + (i - 1) * end_color[c]) \div (n - 1)]]

add_point(point, name, rgb) ==
    [kind |-> "point", name |-> name, coords |-> << <<point[1], point[2]>> >>,
     rgb |-> rgb]

RECURSIVE SumSeq(_)
SumSeq(xs) == IF xs = <<>> THEN 0 ELSE Head(xs) + SumSeq(Tail(xs))

\* len(points) times (center_x, center_y)
center_sums(points) ==
    <<SumSeq([i \in DOMAIN points |-> points[i][1]]),
      SumSeq([i \in DOMAIN points |-> points[i][2]])>>

\* (dx, dy) of angle_from_center, times len(points)
from_center(point, n, sums) ==
    <<n * point[1] - sums[1], n * point[2] - sums[2]>>

\* np.arctan2(dy, dx) lies in (-pi, 0), is 0, lies in (0, pi), or is pi
arctan2_range(d) ==
    IF d[2] < 0 THEN 0 ELSE IF d[2] > 0 THEN 2 ELSE IF d[1] >= 0 THEN 1 ELSE 3

\* arctan2 of direction a < arctan2 of direction b
arctan2_less(a, b) ==
    \/ arctan2_range(a) < arctan2_range(b)
    \/ /\ arctan2_range(a) = arctan2_range(b)
       /\ arctan2_range(a) \in {0, 2}
       /\ a[1] * b[2] - a[2] * b[1] > 0

\* the same without the sort
sorted_by_key_Unsorted(points, keys) == points

\* sorted(points, key=...): ascending in the key and stable; keys[i] is the
\* key of points[i]
sorted_by_key(points, keys) ==
    LET before(j, i) ==
            \/ arctan2_less(keys[j], keys[i])
            \/ ~arctan2_less(keys[i], keys[j]) /\ j < i
        place == [i \in DOMAIN points |->
                     Cardinality({j \in DOMAIN points : before(j, i)}) + 1] \o <<>>
    IN  [r \in DOMAIN points |-> points[CHOOSE i \in DOMAIN points : place[i] = r]]

generate_groundpoint_polygon(points, name, rgb) ==
    LET sums == center_sums(points)
        sorted_points ==
            IF Len(points) < 3 THEN points
            ELSE sorted_by_key(points,
                     [i \in DOMAIN points |->
                         from_center(points[i], Len(points), sums)] \o <<>>)
            \o <<>>
    IN  [kind |-> "polygon", name |-> name,
         outerboundaryis |-> IF sorted_points # <<>>
                             THEN Append(sorted_points, sorted_points[1])
                             ELSE <<>>,
         altitudemode |-> "clamptoground", rgb |-> rgb, width |-> 3,
         fill |-> 0, outline |-> 1]

\* the (group_key, group_df) pairs the loop sees: the keys that have a run,
\* in ascending order
RECURSIVE groupby_items(_, _)
groupby_items(grouped, keys) ==
    IF keys = {} THEN <<>>
    ELSE LET k == CHOOSE x \in keys : \A y \in keys : x <= y
             later == groupby_items(grouped, keys \ {k})
         IN  IF grouped[k] = <<>> THEN later ELSE << <<k, grouped[k]>> >> \o later

\* the same with a group of exactly 3 points left to the polygon branch
emits_points_Below3(point_output, points) == point_output /\ Len(points) < 3

\* the condition under which a group is written point by point
emits_points(point_output, points) == point_output /\ Len(points) <= 3

\* the features one pass of the loop adds to self.kml
group_features(i, group_key, group_df, color_gradient, point_output) ==
    LET points == [k \in DOMAIN group_df |->
                      <<group_df[k].landed_longitude, group_df[k].landed_latitude>>]
        current_color == IF color_gradient # <<>> THEN color_gradient[i]
                         ELSE <<255, 0, 0>>
    IN  (IF emits_points(point_output, points)
         THEN [k \in DOMAIN points |-> add_point(points[k], "", current_color)]
         ELSE <<>>)
        \o (IF Len(points) > 3
            THEN <<generate_groundpoint_polygon(points, ToString(group_key),
                                                current_color)>>
            ELSE <<>>)

\* the features added, pass by pass
generate_grouped_points_polygons(items, point_output) ==
    LET num_groups == Len(items)
        color_gradient ==
            IF num_groups > 0
            THEN create_color_gradient(<<248, 112, 128>>, <<247, 93, 139>>, num_groups)
            ELSE <<>>
    IN  [i \in DOMAIN items |->
            group_features(i, items[i][1], items[i][2], color_gradient, point_output)]

RECURSIVE Flatten(_)
Flatten(xss) == IF xss = <<>> THEN <<>> ELSE Head(xss) \o Flatten(Tail(xss))

\* Bound of the model: the number of runs of a group
MaxGroup == 4

GroupKeys == {0, 90}

\* the runs that can land: the condition key and the landed (lat, lon)
GroupRuns ==
    {[key |-> 0, landed_latitude |-> 4, landed_longitude |-> 5],
     [key |-> 0, landed_latitude |-> 0, landed_longitude |-> 3],
     [key |-> 90, landed_latitude |-> 2, landed_longitude |-> 4]}

\* KMLGenerator(): self.kml = simplekml.Kml()
NewKMLGenerator ==
    /\ kml' = <<>>
    /\ UNCHANGED <<grouped_df, kml_call, polygon_call, windVars, rangeVars, runVars, tableVars, mergeVars>>

\* one more run lands and joins the group of its condition key
AddRun ==
    \E run \in GroupRuns :
        /\ Len(grouped_df[run.key]) < MaxGroup
        /\ grouped_df' = [grouped_df EXCEPT ![run.key] =
               Append(@, [landed_latitude |-> run.landed_latitude,
                          landed_longitude |-> run.landed_longitude])]
        /\ UNCHANGED <<kml, kml_call, polygon_call, windVars, rangeVars, runVars, tableVars, mergeVars>>

\* generate_grouped_points_polygons on a generator that holds nothing yet
CallGenerateGroupedPointsPolygons ==
    /\ kml = <<>>
    /\ \E point_output \in BOOLEAN :
        /\ kml_call' =
               LET items == groupby_items(grouped_df, GroupKeys)
               IN  [called |-> TRUE, point_output |-> point_output,
                    items |-> items,
                    emitted |-> generate_grouped_points_polygons(items, point_output)]
        /\ kml' = kml \o Flatten(kml_call'.emitted)
        /\ UNCHANGED <<grouped_df, polygon_call,
                       windVars, rangeVars, runVars, tableVars, mergeVars>>

\* Bound of the model: the number of points of a footprint
MaxPoints == 4

\* (lon, lat): the corners of a square and its centre
PolygonPoints == {<<0, 0>>, <<2, 0>>, <<2, 2>>, <<0, 2>>, <<1, 1>>}

PointLists == UNION {[1..n -> PolygonPoints] : n \in 0..MaxPoints}

\* the first generate_groundpoint_polygon, on a generator that holds nothing
CallGenerateGroundpointPolygon ==
    /\ polygon_call = NoCall
    /\ kml = <<>>
    /\ \E points \in PointLists :
        /\ polygon_call' =
               [called |-> TRUE, points |-> points,
                polygon |-> generate_groundpoint_polygon(points, "footprint",
                                                         <<255, 0, 0>>)]
        /\ kml' = Append(kml, polygon_call'.polygon)
        /\ UNCHANGED <<grouped_df, kml_call,
                       windVars, rangeVars, runVars, tableVars, mergeVars>>

InitKml ==
    /\ grouped_df = [key \in GroupKeys |-> <<>>]
    /\ kml = <<>>
    /\ kml_call = NoCall
    /\ polygon_call = NoCall

----------------------------------------------------------------------------
(* kml_generator.py: merge_kmz_to_kml                                      *)

(* A text is a sequence of tokens: a tag, or a whole Placemark element.    *)

\* a document as it was written: the text before its top-level Document
\* element, the element (with an opening and a closing tag, or as the single
\* empty-element tag an XML writer gives a Document without children; absent
\* from a file that has no Document), and the text after it
KmlDocument(has_document, empty_element_tag, content) ==
    [prolog |-> <<"<kml>">>, has_document |-> has_document,
     empty_element_tag |-> empty_element_tag, content |-> content,
     epilog |-> <<"</kml>">>]

\* the text of the file
document_text(doc) ==
    doc.prolog
    \o (IF ~doc.has_document THEN doc.content
        ELSE IF doc.empty_element_tag THEN <<"<Document/>">>
        ELSE <<"<Document>">> \o doc.content \o <<"</Document>">>)
    \o doc.epilog

\* the tokens <Document[^>]*> matches
matches_Document_tag(token) == token \in {"<Document>", "<Document/>"}

\* re.search(r"<Document[^>]*>(.*)</Document>", text, re.DOTALL): the leftmost
\* start that has a match, and from there the longest (.*); start and end are
\* those of group 1, the tokens start..end-1
re_search(text) ==
    LET opens == {i \in DOMAIN text : matches_Document_tag(text[i])}
        first == CHOOSE i \in opens : \A k \in opens : i <= k
        closes == {j \in DOMAIN text : j > first /\ text[j] = "</Document>"}
        last == CHOOSE j \in closes : \A k \in closes : k <= j
    IN  IF opens = {} \/ closes = {} THEN [matched |-> FALSE]
        ELSE [matched |-> TRUE, start |-> first + 1, end |-> last,
              group |-> SubSeq(text, first + 1, last - 1)]

\* the text merge_kmz_to_kml writes to output_path
merge_kmz_to_kml(existing, kmz) ==
    LET existing_doc_match == re_search(existing)
        kmz_doc_match == re_search(kmz)
    IN  IF ~existing_doc_match.matched \/ ~kmz_doc_match.matched THEN existing
        ELSE LET kml_header == SubSeq(existing, 1, existing_doc_match.start - 1)
                 kml_footer == SubSeq(existing, existing_doc_match.end, Len(existing))
             IN  kml_header \o existing_doc_match.group
                     \o kmz_doc_match.group \o kml_footer

\* Bound of the model: the number of features of a Document
MaxFeatures == 2

Placemarks == {<<"<Placemark a/>">>, <<"<Placemark b/>">>}

\* a feature of a Document: a placemark or a nested Document
Features ==
    Placemarks
    \cup {<<"<Document/>">>, <<"<Document>", "<Placemark a/>", "</Document>">>}

ContentsOf(features) ==
    UNION {{Flatten(fs) : fs \in [1..n -> features]} : n \in 0..MaxFeatures}

KmlDocuments ==
    {KmlDocument(TRUE, FALSE, c) : c \in ContentsOf(Features)}
    \cup {KmlDocument(TRUE, TRUE, <<>>)}
    \cup {KmlDocument(FALSE, FALSE, c) : c \in ContentsOf(Placemarks)}

NoFile == [written |-> FALSE]

\* the file at existing_kml_path is written
WriteExistingKml ==
    /\ existing_content = NoFile
    /\ \E doc \in KmlDocuments :
        /\ existing_content' =
               [written |-> TRUE, doc |-> doc, text |-> document_text(doc)]
        /\ UNCHANGED <<kmz_content, merge_output,
                       windVars, rangeVars, runVars, tableVars, kmlVars>>

\* the archive at kmz_path is written
WriteKmz ==
    /\ kmz_content = NoFile
    /\ \E doc \in KmlDocuments :
        /\ kmz_content' =
               [written |-> TRUE, doc |-> doc, text |-> document_text(doc)]
        /\ UNCHANGED <<existing_content, merge_output,
                       windVars, rangeVars, runVars, tableVars, kmlVars>>

CallMergeKmzToKml ==
    /\ existing_content.written
    /\ kmz_content.written
    /\ merge_output' =
           [called |-> TRUE,
            text |-> merge_kmz_to_kml(existing_content.text, kmz_content.text)]
    /\ UNCHANGED <<existing_content, kmz_content,
                   windVars, rangeVars, runVars, tableVars, kmlVars>>

InitMerge ==
    /\ existing_content = NoFile
    /\ kmz_content = NoFile
    /\ merge_output = NoCall

----------------------------------------------------------------------------
(* Specifications: nothing has been called or constructed at the start.    *)

Init ==
    InitWind /\ InitRange /\ InitRun /\ InitTable /\ InitKml /\ InitMerge

SpecWind == Init /\ [][CallGenerateWindTable]_vars

NextRange == ConstructNoshiroSea \/ ConstructSquare \/ CallLandingRange

SpecRange == Init /\ [][NextRange]_vars

NextTable == BuildEnsemble \/ CallGenerateLandingRangeTable

SpecTable == Init /\ [][NextTable]_vars

NextKml ==
    NewKMLGenerator \/ AddRun \/ CallGenerateGroupedPointsPolygons

SpecKml == Init /\ [][NextKml]_vars

NextPolygon == NewKMLGenerator \/ CallGenerateGroundpointPolygon

SpecPolygon == Init /\ [][NextPolygon]_vars

NextMerge == WriteExistingKml \/ WriteKmz \/ CallMergeKmzToKml

SpecMerge == Init /\ [][NextMerge]_vars

NextRun == RunSimulation \/ CallGetExtremaAnalysis \/ CallSummarizeOutputInfoDf

SpecRun == Init /\ [][NextRun]_vars

----------------------------------------------------------------------------
(* Claims about generate_wind_table, checked under SpecWind.               *)

\* C4: for every ground wind direction d in [0, 360), every sample of the
\* returned table carries the direction (d + 180) mod 360, a value in [0, 360).
C4_DirectionIsReciprocalBearing ==
    (wind_args.called /\ wind_args.ground_wind_dir \in 0..359) =>
        \A i \in DOMAIN wind_table :
            /\ wind_table[i].direction = (wind_args.ground_wind_dir + 180) % 360
            /\ wind_table[i].direction \in 0..359

\* C5: the altitudes of the returned table are strictly increasing, and every
\* altitude the three ranges produce, the shared ones included, appears
\* exactly once.
C5_AltitudesStrictlyIncreasing ==
    wind_args.called =>
        /\ \A i \in 1..(Len(wind_table) - 1) :
               wind_table[i].altitude < wind_table[i + 1].altitude
        /\ \A k \in DOMAIN altitudes_extended :
               Cardinality({i \in DOMAIN wind_table :
                   wind_table[i].altitude = altitudes_extended[k]}) = 1

\* a table was returned and the ranges did share an altitude (10 m)
C5_Witness ==
    /\ wind_args.called
    /\ \E k, l \in DOMAIN altitudes_extended :
           k < l /\ altitudes_extended[k] = 1000 /\ altitudes_extended[l] = 1000
    /\ \E i \in DOMAIN wind_table : wind_table[i].altitude = 1000

----------------------------------------------------------------------------
(* Claims about NoshiroSea.landing_range, checked under SpecRange.         *)

\* p is strictly inside the ring: off the ring, and a ray towards +y crosses
\* the ring an odd number of times
StrictlyInside(ring, p) ==
    /\ ~on_boundary(ring, p)
    /\ Cardinality({e \in Edges(ring) :
           LET a == ring[e[1]]
               b == ring[e[2]]
               lo == IF a.x < b.x THEN a ELSE b
               hi == IF a.x < b.x THEN b ELSE a
           IN  /\ lo.x <= p.x /\ p.x < hi.x
               /\ (p.y - lo.y) * (hi.x - lo.x) < (hi.y - lo.y) * (p.x - lo.x)})
         % 2 = 1

StrictlyOutside(ring, p) == ~on_boundary(ring, p) /\ ~StrictlyInside(ring, p)

\* C7: landing_range is strictly positive strictly inside the polygon and
\* strictly negative strictly outside it, and its magnitude is the distance
\* from the query point to a nearest point of the polygon boundary; in the
\* square of the scenario (0.5, 0.5) is positive and (2, 2) is negative with
\* the distance to the corner (1, 1).
C7_SignedDistanceToBoundary ==
    lr_result.called =>
        LET p == Pt(lr_args.longitude, lr_args.latitude)
        IN  /\ StrictlyInside(lr_polygon, p) => lr_result.sign = 1
            /\ StrictlyOutside(lr_polygon, p) => lr_result.sign = -1
            /\ ~on_boundary(lr_polygon, p) =>
                   \E n \in nearest_on_boundary(lr_polygon, p) :
                       /\ lr_result.dist2 = geodesic2(p, n)
                       /\ lr_result.dist2.num > 0
            /\ (lr_polygon = Polygon(SQUARE_COORDINATES) /\ p = Pt(1, 1)) =>
                   lr_result.sign = 1
            /\ (lr_polygon = Polygon(SQUARE_COORDINATES) /\ p = Pt(4, 4)) =>
                   /\ lr_result.sign = -1
                   /\ lr_result.dist2 = geodesic2(p, Pt(2, 2))

\* a point inside the Noshiro polygon, 3 steps of latitude from the ring
C7_Witness ==
    /\ lr_result.called
    /\ lr_polygon = Polygon(POLYGON_COORDINATES)
    /\ StrictlyInside(lr_polygon, Pt(lr_args.longitude, lr_args.latitude))
    /\ lr_args.latitude = 4 /\ lr_args.longitude = 5
    /\ lr_result.sign = 1
    /\ lr_result.dist2 = RatOfInt(144)

----------------------------------------------------------------------------
(* Claims about get_extrema_analysis and summarize_output_info_df, checked *)
(* under SpecRun.                                                          *)

\* no record of the run has an altitude strictly above the launch-clear height
NeverClears ==
    /\ raw_output.written
    /\ \A i \in DOMAIN raw_output.df :
           raw_output.df[i].altitude <= launch_clear_height(raw_output.launch)

\* the names of the extrema a returned table has rows for
ExtremaTypes(result) ==
    IF result.kind = "table" /\ "extrema_type" \in result.columns
    THEN {result.rows[i].extrema_type : i \in DOMAIN result.rows}
    ELSE {}

\* C1 as stated: when no record is above the launch-clear height, both
\* get_extrema_analysis and summarize_output_info_df end with an error.
C1_NeverClearsIsAnError ==
    NeverClears =>
        /\ extrema.called => extrema.result.kind = "error"
        /\ summary.called => summary.result.kind = "error"

\* C1 as amended: when no record is above the launch-clear height,
\* summarize_output_info_df ends with an error and so does
\* get_extrema_analysis for a registered site key; for an unregistered key
\* get_extrema_analysis returns the one-row landing_range table. No result
\* has a launch_clear row or a launch_clear_speed.
C1_NeverClearsYieldsNoLaunchClear ==
    NeverClears =>
        /\ (extrema.called /\ extrema.landing_range_script \in DOMAIN LAUNCH_SITES) =>
               extrema.result.kind = "error"
        /\ (extrema.called /\ extrema.landing_range_script \notin DOMAIN LAUNCH_SITES) =>
               /\ extrema.result.kind = "table"
               /\ extrema.result.columns = {"landing_range"}
        /\ extrema.called => "launch_clear" \notin ExtremaTypes(extrema.result)
        /\ summary.called => summary.result.kind = "error"

\* both functions were called on a run whose highest record is exactly at the
\* launch-clear height, and both raised
C1_Witness ==
    /\ NeverClears
    /\ \E i \in DOMAIN raw_output.df :
           raw_output.df[i].altitude = launch_clear_height(raw_output.launch)
    /\ extrema.called /\ extrema.landing_range_script \in DOMAIN LAUNCH_SITES
    /\ extrema.result.kind = "error"
    /\ summary.called /\ summary.result.kind = "error"

StrictlyIncreasingTime(df) ==
    \A i \in 1..(Len(df) - 1) : df[i].time < df[i + 1].time

\* C2: a trajectory whose Time column is not strictly increasing is rejected:
\* get_extrema_analysis (site key registered) raises instead of returning a
\* table computed from it.
C2_NonMonotonicTimeIsRejected ==
    (/\ extrema.called
     /\ extrema.landing_range_script \in DOMAIN LAUNCH_SITES
     /\ ~StrictlyIncreasingTime(raw_output.df)) =>
        extrema.result.kind = "error"

\* C3 as stated: with a site key that has no registered evaluator,
\* get_extrema_analysis fails with an error and returns no table.
C3_UnregisteredSiteIsAnError ==
    (extrema.called /\ extrema.landing_range_script \notin DOMAIN LAUNCH_SITES) =>
        extrema.result.kind = "error"

\* C3 as amended: with a site key that has no registered evaluator,
\* get_extrema_analysis raises nothing and returns, whatever the trajectory,
\* the table of one column landing_range and one row holding 0.
C3_UnregisteredSiteYieldsZeroTable ==
    (extrema.called /\ extrema.landing_range_script \notin DOMAIN LAUNCH_SITES) =>
        /\ extrema.result.kind = "table"
        /\ extrema.result.columns = {"landing_range"}
        /\ extrema.result.rows = <<[landing_range |-> 0]>>

\* the call with the unregistered key on a run that would otherwise raise
C3_Witness ==
    /\ extrema.called
    /\ extrema.landing_range_script = "unknown_site"
    /\ NeverClears
    /\ extrema.result.kind = "table"
    /\ Len(extrema.result.rows) = 1

\* C10: the load metric of every record is dynamic_pressure times the total
\* angle of attack in degrees, and the max-load-metric extremum is the record
\* that maximizes that product.
C10_LoadMetricIsPressureTimesTotalAoA ==
    (extrema.called /\ "max_qbar_atan_aoa" \in ExtremaTypes(extrema.result)) =>
        LET df == raw_output.df
            load(r) == r.dynamic_pressure * r.angle_of_attack_total
            row == CHOOSE r \in {extrema.result.rows[i] : i \in DOMAIN extrema.result.rows} :
                       r.extrema_type = "max_qbar_atan_aoa"
        IN  /\ \A i \in DOMAIN df : qbar_atan_aoa(df[i]) = RatOfInt(load(df[i]))
            /\ row.extrema_value = RatOfInt(load(Loc(df, row.index)))
            /\ \A i \in DOMAIN df : load(df[i]) <= load(Loc(df, row.index))

----------------------------------------------------------------------------
(* Claims about generate_grouped_points_polygons, checked under SpecKml.   *)

PointsEmitted(call, i) ==
    {k \in DOMAIN call.emitted[i] : call.emitted[i][k].kind = "point"}

PolygonsEmitted(call, i) ==
    {k \in DOMAIN call.emitted[i] : call.emitted[i][k].kind = "polygon"}

\* group i of the call came out point by point: one point per run, in order
EmitsPointsOnly(call, i) ==
    LET group_df == call.items[i][2]
    IN  /\ PolygonsEmitted(call, i) = {}
        /\ Len(call.emitted[i]) = Len(group_df)
        /\ \A k \in DOMAIN group_df :
               /\ call.emitted[i][k].kind = "point"
               /\ call.emitted[i][k].coords =
                      << <<group_df[k].landed_longitude, group_df[k].landed_latitude>> >>

\* group i of the call came out as one footprint polygon
EmitsOnePolygon(call, i) ==
    /\ PointsEmitted(call, i) = {}
    /\ Cardinality(PolygonsEmitted(call, i)) = 1
    /\ Len(call.emitted[i]) = 1

GroupRule(call, i) ==
    IF Len(call.items[i][2]) <= 3 THEN EmitsPointsOnly(call, i)
    ELSE EmitsOnePolygon(call, i)

\* group j of the later call is group i of the earlier one, grown from 3 to 4
\* points by one more run
GrownFrom3To4(earlier, i, later, j) ==
    /\ earlier.items[i][1] = later.items[j][1]
    /\ Len(earlier.items[i][2]) = 3
    /\ Len(later.items[j][2]) = 4
    /\ SubSeq(later.items[j][2], 1, 3) = earlier.items[i][2]

SwitchRule(earlier, later) ==
    \A i \in DOMAIN earlier.items, j \in DOMAIN later.items :
        GrownFrom3To4(earlier, i, later, j) =>
            EmitsPointsOnly(earlier, i) /\ EmitsOnePolygon(later, j)

----------------------------------------------------------------------------
(* Claims about generate_landing_range_table, checked under SpecTable.     *)

EmptyEnsemble ==
    /\ simulation_df.written
    /\ simulation_df.df.rows = <<>>
    /\ condition_cols(simulation_df.df.columns, "ground_wind_speed") # {}
    /\ condition_cols(simulation_df.df.columns, "ground_wind_dir") # {}

\* C9: called on an ensemble that has the wind-speed and wind-direction
\* columns and a registered site key but no rows, generate_landing_range_table
\* returns an empty table and raises no error.
C9_EmptyEnsembleYieldsEmptyTable ==
    (/\ range_table.called
     /\ LAUNCH_SITES_get(range_table.landing_range_script) # "None"
     /\ EmptyEnsemble) =>
        /\ range_table.result.kind = "table"
        /\ range_table.result = EmptyDataFrame

----------------------------------------------------------------------------
(* Claims about merge_kmz_to_kml, checked under SpecMerge.                 *)

\* the text of a document up to and including the opening tag of its
\* top-level Document element
ThroughOpeningTag(doc) ==
    doc.prolog \o
        (IF doc.empty_element_tag THEN <<"<Document/>">> ELSE <<"<Document>">>)

\* the text of a document from the closing tag of its top-level Document
\* element onward; an empty-element tag closes the element it opens
FromClosingTag(doc) ==
    (IF doc.empty_element_tag THEN <<>> ELSE <<"</Document>">>) \o doc.epilog

MergedAsStated ==
    merge_output.text =
        ThroughOpeningTag(existing_content.doc) \o existing_content.doc.content
            \o kmz_content.doc.content \o FromClosingTag(existing_content.doc)

\* C11: when both documents contain a top-level Document element, the output
\* is the first document's text through its Document opening tag, the first
\* document's inner content, the second document's inner content unchanged,
\* and the first document's text from its closing Document tag onward.
C11_MergeConcatenatesInnerContents ==
    (/\ merge_output.called
     /\ existing_content.doc.has_document
     /\ kmz_content.doc.has_document) => MergedAsStated

\* the same for a first document whose Document element has an opening and a
\* closing tag
MergeOfPairedTagsConcatenatesInnerContents ==
    (/\ merge_output.called
     /\ existing_content.doc.has_document
     /\ ~existing_content.doc.empty_element_tag
     /\ kmz_content.doc.has_document) => MergedAsStated

----------------------------------------------------------------------------
(* Claims about the launch-clear record and the maxima, checked under      *)
(* SpecRun.                                                                *)

\* some record of the run is above the launch-clear height
Clears ==
    /\ raw_output.written
    /\ \E i \in DOMAIN raw_output.df :
           raw_output.df[i].altitude > launch_clear_height(raw_output.launch)

\* the first index whose altitude is above the launch-clear height
FirstAbove ==
    CHOOSE l \in Labels(raw_output.df) :
        /\ Loc(raw_output.df, l).altitude > launch_clear_height(raw_output.launch)
        /\ \A k \in 0..(l - 1) :
               Loc(raw_output.df, k).altitude <= launch_clear_height(raw_output.launch)

\* the row a returned extrema table has for the named extremum
ExtremaRow(result, extrema_type) ==
    result.rows[CHOOSE i \in DOMAIN result.rows :
                    result.rows[i].extrema_type = extrema_type]

RegisteredExtremaCall ==
    extrema.called /\ extrema.landing_range_script \in DOMAIN LAUNCH_SITES

\* C12: for a trajectory with strictly increasing time in which some record
\* is above the launch-clear height, the launch_clear extremum is the first
\* index whose altitude is strictly above elevation + launcher_length *
\* sin(pitch), and launch_clear_speed is the true velocity of that record.
C12_LaunchClearIsFirstRecordAboveThreshold ==
    (Clears /\ StrictlyIncreasingTime(raw_output.df)) =>
        /\ RegisteredExtremaCall =>
               /\ "launch_clear" \in ExtremaTypes(extrema.result)
               /\ LET row == ExtremaRow(extrema.result, "launch_clear")
                      record == Loc(raw_output.df, FirstAbove)
                  IN  /\ row.index = FirstAbove
                      /\ row.extrema_value = record.altitude
                      /\ row.time = record.time
                      /\ row.true_velocity = record.true_velocity
        /\ summary.called =>
               /\ summary.result.kind = "row"
               /\ summary.result.launch_clear_speed =
                      Loc(raw_output.df, FirstAbove).true_velocity

\* both functions were called on a run of two records with different speeds,
\* the first exactly at the launch-clear height and the second above it
C12_Witness ==
    /\ Clears
    /\ StrictlyIncreasingTime(raw_output.df)
    /\ Len(raw_output.df) = 2
    /\ raw_output.df[1].altitude = launch_clear_height(raw_output.launch)
    /\ raw_output.df[1].true_velocity # raw_output.df[2].true_velocity
    /\ RegisteredExtremaCall
    /\ ExtremaRow(extrema.result, "launch_clear").index = 1
    /\ summary.called
    /\ summary.result.launch_clear_speed = raw_output.df[2].true_velocity

\* the max_* extrema and the column each one maximizes
MaxExtrema ==
    {<<"max_speed", "true_velocity">>,
     <<"max_dynamic_pressure", "dynamic_pressure">>,
     <<"max_acceleration", "acceleration">>,
     <<"max_altitude", "altitude">>,
     <<"max_thrust", "thrust">>,
     <<"parachute_deploy", "parachute_deploy_gain">>}

\* C13: for a trajectory get_extrema_analysis accepts, every max_* extremum
\* is at an index whose metric is >= the metric at every index of the
\* trajectory and > the metric at every earlier index, and carries that
\* metric as its value.
C13_MaxExtremaAreEarliestMaxima ==
    (RegisteredExtremaCall /\ Clears) =>
        /\ extrema.result.kind = "table"
        /\ \A e \in MaxExtrema :
               /\ e[1] \in ExtremaTypes(extrema.result)
               /\ LET row == ExtremaRow(extrema.result, e[1])
                      df == raw_output.df
                  IN  /\ row.index \in Labels(df)
                      /\ \A k \in Labels(df) :
                             Loc(df, row.index)[e[2]] >= Loc(df, k)[e[2]]
                      /\ \A k \in 0..(row.index - 1) :
                             Loc(df, row.index)[e[2]] > Loc(df, k)[e[2]]
                      /\ row.extrema_value = Loc(df, row.index)[e[2]]

\* the extrema of a run whose second record is a single altitude spike and
\* whose two records have the same speed
C13_Witness ==
    /\ RegisteredExtremaCall
    /\ Clears
    /\ Len(raw_output.df) = 2
    /\ raw_output.df[1].altitude < raw_output.df[2].altitude
    /\ raw_output.df[1].true_velocity = raw_output.df[2].true_velocity
    /\ ExtremaRow(extrema.result, "max_altitude").index = 1
    /\ ExtremaRow(extrema.result, "max_speed").index = 0

----------------------------------------------------------------------------
(* Claims about generate_groundpoint_polygon, checked under SpecPolygon.   *)

\* how often point p occurs among the first n entries of xs
Occurrences(xs, n, p) == Cardinality({i \in 1..n : xs[i] = p})

\* the direction of a point of the call as seen from the arithmetic mean of
\* the call's points
DirectionFromCentroid(point) ==
    from_center(point, Len(polygon_call.points), center_sums(polygon_call.points))

====
